---- MODULE Spec2Model ----
(***************************************************************************)
(* LINE healthcare chatbot (src/python-serverless/main.py).                *)
(*                                                                         *)
(* A text is a sequence of Unicode code points.  The fixed templates of    *)
(* the program (disclaimer, resource list, fallback, welcome, knowledge    *)
(* base entries) are long literals; each is abbreviated here to a text of  *)
(* one code point of the Unicode private use area, a different one for     *)
(* each template, so that concatenation, suffix and containment of the     *)
(* templates keep their meaning.                                           *)
(***************************************************************************)
EXTENDS Integers, Sequences, FiniteSets, TLC

\* ---------------------------------------------------------------- bounds
\* Largest number of events in one webhook envelope.
MaxEvents == 2

\* Largest number of fragments a classified text is put together from.
MaxParts == 3

\* Largest length of a text handed to the language detector on its own.
MaxTextLen == 3

\* Number of request slots (requests that can be in flight together).
NReq == 2

ReqIds == 1..NReq

\* ------------------------------------------------------- input alphabets
\* "HIV?"
TextHivEn == <<72, 73, 86, 63>>

\* "PrEP" followed by a space and a Thai word
TextPrepTh == <<80, 114, 69, 80, 32, 3588, 3639, 3629>>

\* "STD"
TextStdEn == <<83, 84, 68>>

\* "Hello"
TextHello == <<72, 101, 108, 108, 111>>

\* Thai greeting (no keyword)
TextSawasdee == <<3626, 3623, 3633, 3626, 3604, 3637>>

Texts == {TextHivEn, TextPrepTh, TextStdEn, TextHello, TextSawasdee}

\* Answer text of the AI model when it answers: "ok"
AiAnswer == <<111, 107>>

\* ------------------------------------------------------ fixed templates
DisclaimerEn == <<57345>>

DisclaimerTh == <<57346>>

ResourcesEn == <<57347>>

ResourcesTh == <<57348>>

FallbackEn == <<57349>>

FallbackTh == <<57350>>

WelcomeMessage == <<57351>>

HivInfoEn == <<57352>>

HivInfoTh == <<57353>>

PrepInfoEn == <<57354>>

PrepInfoTh == <<57355>>

StdInfoEn == <<57356>>

StdInfoTh == <<57357>>

\* self.healthcare_responses
healthcare_responses ==
  [hiv  |-> [en |-> HivInfoEn,  th |-> HivInfoTh],
   prep |-> [en |-> PrepInfoEn, th |-> PrepInfoTh],
   std  |-> [en |-> StdInfoEn,  th |-> StdInfoTh]]

Intents == {"hiv", "prep", "std", "general"}

Languages == {"en", "th"}

\* --------------------------------------------------------- pure helpers
\* str.lower() on one code point: ASCII capitals are mapped to small
\* letters; the other code points of the model (Thai, digits, punctuation,
\* private use) have no case and are unchanged.
LowerChar(c) == IF c >= 65 /\ c <= 90 THEN c + 32 ELSE c

Lower(text) == [i \in 1..Len(text) |-> LowerChar(text[i])]

\* Python's `keyword in lower_text`
IsSubstring(kw, text) ==
  \E i \in 0..(Len(text) - Len(kw)) : SubSeq(text, i + 1, i + Len(kw)) = kw

HivKeywords ==
  { <<104, 105, 118>>,
    <<97, 105, 100, 115>>,
    <<3648, 3629, 3594, 3652, 3629, 3623, 3637>>,
    <<3648, 3629, 3604, 3626, 3660>> }

PrepKeywords ==
  { <<112, 114, 101, 112>>,
    <<112, 114, 101, 45, 101, 120, 112, 111, 115, 117, 114, 101>>,
    <<3648, 3614, 3619, 3614>>,
    <<3585, 3634, 3619, 3611, 3657, 3629, 3591, 3585, 3633, 3609,
      3585, 3656, 3629, 3609, 3626, 3633, 3617, 3612, 3633, 3626>> }

StdKeywords ==
  { <<115, 116, 100>>,
    <<115, 116, 105>>,
    <<115, 101, 120, 117, 97, 108, 108, 121, 32, 116, 114, 97, 110, 115,
      109, 105, 116, 116, 101, 100>>,
    <<3650, 3619, 3588, 3605, 3636, 3604, 3605, 3656, 3629, 3607, 3634,
      3591, 3648, 3614, 3624>>,
    <<3650, 3619, 3588, 3585, 3634, 3617, 3650, 3619, 3588>> }

\* The classifier with the PrEP keywords tested before the HIV keywords.
ClassifyPrepFirst(text) ==
  LET lower_text == Lower(text) IN
  IF \E keyword \in PrepKeywords : IsSubstring(keyword, lower_text) THEN "prep"
  ELSE IF \E keyword \in HivKeywords : IsSubstring(keyword, lower_text) THEN "hiv"
  ELSE IF \E keyword \in StdKeywords : IsSubstring(keyword, lower_text) THEN "std"
  ELSE "general"

_classify_healthcare_intent(text) ==
  LET lower_text == Lower(text) IN
  IF \E keyword \in HivKeywords : IsSubstring(keyword, lower_text) THEN "hiv"
  ELSE IF \E keyword \in PrepKeywords : IsSubstring(keyword, lower_text) THEN "prep"
  ELSE IF \E keyword \in StdKeywords : IsSubstring(keyword, lower_text) THEN "std"
  ELSE "general"

ThaiBlockFirst == 3584

ThaiBlockLast == 3711

\* The detector with re.match in the place of re.search: only the first
\* code point is looked at.
DetectAtStart(text) ==
  IF Len(text) > 0 /\ text[1] >= ThaiBlockFirst /\ text[1] <= ThaiBlockLast
  THEN "th" ELSE "en"

_detect_language(text) ==
  IF \E i \in 1..Len(text) : text[i] >= ThaiBlockFirst /\ text[i] <= ThaiBlockLast
  THEN "th" ELSE "en"

Disclaimer(language) == IF language = "th" THEN DisclaimerTh ELSE DisclaimerEn

Resources(language) == IF language = "th" THEN ResourcesTh ELSE ResourcesEn

\* A composer that puts the resource list after the disclaimer.
FormatResourcesLast(response, intent, language) ==
  LET tail == IF intent \in {"hiv", "prep", "std"}
              THEN Resources(language) ELSE <<>>
  IN response \o Disclaimer(language) \o tail

\* A composer that always appends the English disclaimer.
FormatEnglishDisclaimer(response, intent, language) ==
  LET withResources == IF intent \in {"hiv", "prep", "std"}
                       THEN response \o Resources(language)
                       ELSE response
  IN withResources \o DisclaimerEn

_format_healthcare_response(response, intent, language) ==
  LET withResources == IF intent \in {"hiv", "prep", "std"}
                       THEN response \o Resources(language)
                       ELSE response
  IN withResources \o Disclaimer(language)

_get_fallback_response(language) ==
  IF language = "th" THEN FallbackTh ELSE FallbackEn

\* ------------------------------------------------------------ signatures
\* A header value.  kind "empty" is the empty string, kind "mac" is
\* base64(HMAC-SHA256(key, body)), kind "other" is any other string.  The
\* MAC is a symbolic term: MACs of different keys or bodies are different
\* strings, and no other string equals a MAC.
NoBody == [json |-> "malformed", events |-> <<>>]

EmptyValue == [kind |-> "empty", key |-> "", body |-> NoBody]

OtherValue == [kind |-> "other", key |-> "", body |-> NoBody]

Mac(key, body) == [kind |-> "mac", key |-> key, body |-> body]

\* A string with a character outside ASCII.
NonAsciiValue == [kind |-> "nonascii", key |-> "", body |-> NoBody]

\* base64(HMAC-SHA256(key, body)) with one byte replaced by another.
MutatedMac(key, body) == [kind |-> "mutated", key |-> key, body |-> body]

\* hmac.compare_digest(a, b) on two str: equality of the strings, and a
\* TypeError when one of them has a character outside ASCII.
CompareDigest(a, b) ==
  IF a.kind = "nonascii" \/ b.kind = "nonascii" THEN "TypeError"
  ELSE IF a = b THEN "True" ELSE "False"

\* The comparison without the try around it.
VerifyOutcomeUnguarded(channel_secret, body, signature) ==
  CompareDigest(signature, Mac(channel_secret, body))

\* The body of _verify_signature: what it returns ("True" or "False"), or
\* the exception that leaves it.
VerifyOutcome(channel_secret, body, signature) ==
  LET expected_signature == Mac(channel_secret, body)
      compared == CompareDigest(signature, expected_signature)
  IN IF compared = "TypeError" THEN "False" ELSE compared

_verify_signature(channel_secret, body, signature) ==
  VerifyOutcome(channel_secret, body, signature) = "True"

\* dict.get(key, default)
Get(headers, name, default) ==
  IF name \in DOMAIN headers THEN headers[name] ELSE default

\* A gate that lets every request through.
SignatureGateDisabled(channel_secret, headers, body) == TRUE

\* A gate that verifies only a signature that is present.
SignatureGateIfPresent(channel_secret, headers, body) ==
  IF channel_secret # ""
  THEN LET signature == Get(headers, "x-line-signature", EmptyValue)
       IN ~(signature.kind # "empty"
            /\ ~_verify_signature(channel_secret, body, signature))
  ELSE TRUE

\* The gate of _handle_webhook: TRUE when the request goes on to parsing.
SignatureGate(channel_secret, headers, body) ==
  IF channel_secret # ""
  THEN LET signature == Get(headers, "x-line-signature", EmptyValue)
       IN ~(signature.kind = "empty"
            \/ ~_verify_signature(channel_secret, body, signature))
  ELSE TRUE

\* ---------------------------------------------------------------- events
\* One element of webhook_data['events'], by the JSON shape of the fields
\* the program reads.  replyToken 0 stands for an absent replyToken (the
\* default '' of event.get).
TextMessage(t, token) ==
  [isObject |-> TRUE, type |-> "message", message |-> "object",
   mtype |-> "text", textKind |-> "str", text |-> t,
   source |-> "object", replyToken |-> token]

FollowEvent(token) ==
  [isObject |-> TRUE, type |-> "follow", message |-> "absent",
   mtype |-> "absent", textKind |-> "absent", text |-> <<>>,
   source |-> "object", replyToken |-> token]

\* a message that is not a text (image, sticker, ...)
ImageMessage(token) ==
  [isObject |-> TRUE, type |-> "message", message |-> "object",
   mtype |-> "image", textKind |-> "absent", text |-> <<>>,
   source |-> "object", replyToken |-> token]

\* an event of another type: unfollow, join, postback, ...
UnfollowEvent(token) == [FollowEvent(token) EXCEPT !.type = "unfollow"]

\* an event without "type"
TypelessEvent(token) == [FollowEvent(token) EXCEPT !.type = "absent"]

\* an element of the events list that is not a JSON object
NonObjectEvent ==
  [isObject |-> FALSE, type |-> "absent", message |-> "absent",
   mtype |-> "absent", textKind |-> "absent", text |-> <<>>,
   source |-> "absent", replyToken |-> 0]

\* "message": null
NullMessageEvent(token) ==
  [isObject |-> TRUE, type |-> "message", message |-> "null",
   mtype |-> "absent", textKind |-> "absent", text |-> <<>>,
   source |-> "object", replyToken |-> token]

\* a text message without "source": the sender id defaults to ''
AnonymousTextMessage(t, token) ==
  [TextMessage(t, token) EXCEPT !.source = "absent"]

\* a text message with "source": null
NullSourceMessage(t, token) ==
  [TextMessage(t, token) EXCEPT !.source = "null"]

\* a text message with "text": null
NullTextMessage(token) ==
  [TextMessage(<<>>, token) EXCEPT !.textKind = "null"]

\* a text message with "text": [] (a list)
ListTextMessage(token) ==
  [TextMessage(<<>>, token) EXCEPT !.textKind = "list"]

EventChoices(token) ==
  { TextMessage(t, token) : t \in Texts }
  \cup { FollowEvent(token), ImageMessage(token), NonObjectEvent, NullMessageEvent(token),
         NullSourceMessage(TextHello, token), NullTextMessage(token),
         ListTextMessage(token) }

\* The events have the expected shape: every field the program reads is
\* absent or of the JSON type the platform documents.
WellShaped(event) ==
  /\ event.isObject
  /\ event.message # "null"
  /\ event.source # "null"
  /\ event.textKind \in {"str", "absent"}

\* The test of line 157: a text Message event.
IsTextMessage(event) ==
  /\ event.isObject
  /\ event.type = "message"
  /\ event.message = "object"
  /\ event.mtype = "text"

IsFollow(event) == event.isObject /\ event.type = "follow"

\* ---------------------------------------------------------------- bodies
MalformedBody == NoBody

\* valid JSON that is not an object: []
ArrayBody == [json |-> "array", events |-> <<>>]

\* a JSON object; events is <<>> when the key is absent or the list empty
Envelope(events) == [json |-> "object", events |-> events]

AllEvents == UNION { EventChoices(token) : token \in 1..MaxEvents }

\* The i-th event of an envelope carries the replyToken i (the platform
\* issues a fresh replyToken for every event).
Envelopes ==
  UNION { { Envelope(s) :
              s \in { q \in [1..n -> AllEvents] :
                        \A i \in 1..n : q[i] \in EventChoices(i) } }
          : n \in 0..MaxEvents }

Bodies == {MalformedBody, ArrayBody} \cup Envelopes

\* -------------------------------------------------------------- requests
ChannelSecret == "secret"

ContentTypeOnly == [name \in {"content-type"} |-> OtherValue]

WithHeader(name, value) ==
  [n \in {"content-type", name} |-> IF n = name THEN value ELSE OtherValue]

\* The headers a sender may attach to a webhook body.
HeaderChoices(body) ==
  { ContentTypeOnly,
    WithHeader("x-line-signature", EmptyValue),
    WithHeader("x-line-signature", Mac(ChannelSecret, body)),
    WithHeader("x-line-signature", Mac("guess", body)),
    WithHeader("X-Line-Signature", Mac(ChannelSecret, body)) }

Request(method, path, headers, body) ==
  [method |-> method, path |-> path, headers |-> headers, body |-> body]

Methods == {"GET", "POST", "OPTIONS"}

Paths == {"/health", "/webhook", "/test", "/"}

\* request_data as on_fetch builds it: the body is read for POST only (it
\* is '' otherwise); a caller of handle_request may pass a body with any
\* method, so an envelope is also sent to every method and path.
Requests ==
  { Request("POST", "/webhook", h[2], h[1]) :
      h \in UNION { { <<b, hd>> : hd \in HeaderChoices(b) } : b \in Bodies } }
  \cup { Request(m, p, ContentTypeOnly, b) :
           m \in Methods, p \in Paths,
           b \in {MalformedBody, Envelope(<<TextMessage(TextHello, 1)>>)} }

NoRequest == Request("", "", ContentTypeOnly, MalformedBody)

Envs ==
  [CHANNEL_SECRET : {"", ChannelSecret}, CHANNEL_ACCESS_TOKEN : {"", "token"},
   ENVIRONMENT : {"production", "development"}]

\* The configuration of the pure functions applied on their own: they read
\* none of it.
BareEnv ==
  [CHANNEL_SECRET |-> "", CHANNEL_ACCESS_TOKEN |-> "",
   ENVIRONMENT |-> "production"]

\* ---------------------------------------------------------- external calls
\* What the AI service does with one call.
AiOutcomes ==
  {"raises", "status_error", "unsuccessful", "null_result", "text",
   "null_response"}

\* What the outbound message service does with one call.
SendOutcomes == {"ok", "status_error", "raises"}

\* A Python value that is a str or is not (None here).
Str(t) == [isStr |-> TRUE, str |-> t]

NotStr == [isStr |-> FALSE, str |-> <<>>]

\* The value _call_cloudflare_ai returns: None, or the decoded JSON object.
AiNone == [isNone |-> TRUE, success |-> FALSE, result |-> "null",
           response |-> NotStr]

AiJson(success, result, response) ==
  [isNone |-> FALSE, success |-> success, result |-> result,
   response |-> response]

_call_cloudflare_ai(outcome) ==
  IF outcome = "raises" THEN AiNone
  ELSE IF outcome = "status_error" THEN AiNone
  ELSE IF outcome = "unsuccessful" THEN AiJson(FALSE, "object", NotStr)
  ELSE IF outcome = "null_result" THEN AiJson(TRUE, "null", NotStr)
  ELSE IF outcome = "text" THEN AiJson(TRUE, "object", Str(AiAnswer))
  ELSE AiJson(TRUE, "object", NotStr)

\* A _generate_ai_response that hands on whatever the AI call gave and
\* answers with the empty text when there is nothing.
GenerateAiResponseNoFallback(ai_response, language) ==
  IF ~ai_response.isNone /\ ai_response.success /\ ai_response.result # "null"
  THEN ai_response.response
  ELSE Str(<<>>)

\* The tail of _generate_ai_response, after the AI call has returned.
_generate_ai_response(ai_response, language) ==
  IF ~ai_response.isNone /\ ai_response.success
  THEN IF ai_response.result = "null"
       THEN Str(_get_fallback_response(language))
       ELSE ai_response.response
  ELSE Str(_get_fallback_response(language))

\* A _send_line_message without its try: an exception of the outbound call
\* reaches the caller.
SendLineMessageUnguarded(outcome) ==
  IF outcome = "raises" THEN "raises" ELSE "returns"

\* How a call of _send_line_message ends for each outcome of the outbound
\* service: both status branches and the except clause return normally.
_send_line_message(outcome) == "returns"

\* A loop that walks the list from its end.
EventOrderReversed(n) == [k \in 1..n |-> n + 1 - k]

\* for event in webhook_data['events']: the k-th iteration takes the
\* element EventOrder(n)[k] of a list of n events.
EventOrder(n) == [k \in 1..n |-> k]

\* ----------------------------------------------------------------- state
VARIABLES
  env,       \* the configuration the chatbot is constructed from
  active,    \* the request slots that accept requests
  pc,        \* per slot: idle, handle, loop, ai, send, done
  request,   \* per slot: the request being handled
  pos,       \* per slot: the iteration of the loop over the events
  frame,     \* per slot: the locals of the dispatcher suspended in a call
  trace,     \* per slot: what the handling of the request has done so far
  response,  \* per slot: the response of handle_request
  call       \* a pure function of the program applied on its own

vars == <<env, active, pc, request, pos, frame, trace, response, call>>

Resp(status, cors, body) == [statusCode |-> status, cors |-> cors, body |-> body]

NoResponse == Resp(0, FALSE, "")

\* The response of the except of handle_request: the text of the exception
\* unless ENVIRONMENT is 'production'.
InternalServerError(environment) ==
  Resp(500, FALSE,
       IF environment # "production" THEN "error_text"
       ELSE "an_error_occurred")

\* The names of the headers in cors_headers of handle_request.
cors_headers ==
  { "Access-Control-Allow-Origin", "Access-Control-Allow-Methods",
    "Access-Control-Allow-Headers", "X-Request-ID" }

\* The names of the headers of a response: cors_headers alone for the
\* preflight, {**cors_headers, 'Content-Type': ...} where they are merged
\* in, and Content-Type alone elsewhere.
HeaderNames(resp) ==
  IF resp.cors
  THEN IF resp.body = "empty" THEN cors_headers
       ELSE cors_headers \cup {"Content-Type"}
  ELSE {"Content-Type"}

NoFrame ==
  [ev |-> 0, handler |-> "none", intent |-> "", language |-> "",
   reply_token |-> 0, message |-> <<>>]

\* One entry of the trace: the operation, the index of the event in the
\* envelope, the outcome of an external call, and for an outbound call the
\* replyToken and the text handed over.
Entry(op, ev, out, token, text) ==
  [op |-> op, ev |-> ev, out |-> out, token |-> token, text |-> text]

Mark(op, ev) == Entry(op, ev, "", 0, <<>>)

\* ------------------------------------------------- results of one step
Step(p, k, f, tr, resp) ==
  [pc |-> p, pos |-> k, frame |-> f, trace |-> tr, response |-> resp]

\* No except clause in _handle_webhook and none in handle_request: the
\* exception leaves handle_request and there is no response.
WebhookUncaught(r, tr) ==
  Step("raised", pos[r], NoFrame, tr, NoResponse)

\* The except clause of _handle_webhook.
WebhookFailed(r, tr) ==
  Step("done", pos[r], NoFrame, tr, Resp(500, FALSE, "webhook_failed"))

\* The dispatcher returns; the loop goes on with the next iteration.
Continue(r, tr) == Step("loop", pos[r] + 1, NoFrame, tr, NoResponse)

\* A sending step without the test of the access token.
SendOrSkipUnguarded(r, tr, f, handler, text) ==
  Step("send", pos[r],
       [f EXCEPT !.handler = handler, !.message = text],
       Append(tr, Entry("send", f.ev, "", f.reply_token, text)),
       NoResponse)

\* The sending step of a chatbot object shared by the requests that keeps
\* the reply token in an attribute: a request suspended in an external
\* call has overwritten it.
SendOrSkipSharedToken(r, tr, f, handler, text) ==
  LET others == { q \in ReqIds \ {r} : pc[q] \in {"ai", "send"} }
      token == IF others = {} THEN f.reply_token
               ELSE frame[CHOOSE q \in others : TRUE].reply_token
  IN IF env.CHANNEL_ACCESS_TOKEN # ""
     THEN Step("send", pos[r],
               [f EXCEPT !.handler = handler, !.message = text,
                         !.reply_token = token],
               Append(tr, Entry("send", f.ev, "", token, text)),
               NoResponse)
     ELSE Continue(r, tr)

\* if self.channel_access_token: await self._send_line_message(...)
SendOrSkip(r, tr, f, handler, text) ==
  IF env.CHANNEL_ACCESS_TOKEN # ""
  THEN Step("send", pos[r],
            [f EXCEPT !.handler = handler, !.message = text],
            Append(tr, Entry("send", f.ev, "", f.reply_token, text)),
            NoResponse)
  ELSE Continue(r, tr)

\* The except clause of _process_healthcare_message (lines 206-211).
\* _detect_language raises on a user_message that is not a str, and that
\* exception leaves the dispatcher.
ExceptClause(r, tr, f, event) ==
  LET tr2 == Append(tr, Mark("fallback", f.ev)) IN
  IF event.textKind = "list"
  THEN WebhookFailed(r, tr2)
  ELSE SendOrSkip(r, tr2, f, "except",
                  _get_fallback_response(_detect_language(event.text)))

\* A handler that remembers what the request has been sent already and
\* leaves the resource list out of every reply after the first.
FormatAndSendRemembering(r, tr, f, event, value) ==
  IF value.isStr
  THEN LET seen == \E k \in DOMAIN tr : tr[k].op = "format"
           formatted_response ==
             _format_healthcare_response(
               value.str, IF seen THEN "general" ELSE f.intent, f.language)
       IN SendOrSkip(r, Append(tr, Entry("format", f.ev, "", 0,
                                         formatted_response)),
                     f, "try", formatted_response)
  ELSE ExceptClause(r, tr, f, event)

\* Lines 199-204: format the answer and send it.  Concatenating a value
\* that is not a str raises inside the try.
FormatAndSend(r, tr, f, event, value) ==
  IF value.isStr
  THEN LET formatted_response ==
             _format_healthcare_response(value.str, f.intent, f.language)
       IN SendOrSkip(r, Append(tr, Entry("format", f.ev, "", 0,
                                         formatted_response)),
                     f, "try", formatted_response)
  ELSE ExceptClause(r, tr, f, event)

\* A test that sends only the HIV topic to the knowledge base.
UsesKnowledgeBaseHivOnly(intent) == intent = "hiv"

\* The test of line 192: the answer comes from the knowledge base.
UsesKnowledgeBase(intent) ==
  intent \in DOMAIN healthcare_responses /\ intent # "general"

\* _process_healthcare_message up to its first external call.
ProcessHealthcareMessage(r, tr0, i, event) ==
  LET tr1 == Append(tr0, Mark("enter", i)) IN
  IF event.source = "null" \/ event.textKind = "null"
  THEN WebhookFailed(r, tr1)                     \* lines 178-182, before the try
  ELSE
    LET f0 == [NoFrame EXCEPT !.ev = i, !.handler = "try",
                              !.reply_token = event.replyToken] IN
    IF event.textKind = "list"
    THEN ExceptClause(r, tr1, f0, event)         \* text.lower() raises
    ELSE
      LET intent == _classify_healthcare_intent(event.text)
          language == _detect_language(event.text)
          f == [f0 EXCEPT !.intent = intent, !.language = language]
          tr2 == Append(tr1, Mark("classify", i))
      IN IF UsesKnowledgeBase(intent)
         THEN FormatAndSend(r, tr2, f, event,
                            Str(healthcare_responses[intent][language]))
         ELSE Step("ai", pos[r], f, Append(tr2, Mark("ai", i)), NoResponse)

\* _send_welcome_message
SendWelcomeMessage(r, tr0, i, event) ==
  LET tr1 == Append(tr0, Mark("enter", i))
      f == [NoFrame EXCEPT !.ev = i, !.reply_token = event.replyToken]
  IN SendOrSkip(r, tr1, f, "welcome", WelcomeMessage)

\* A loop body that ends the loop at the first event it has no handler
\* for.
LoopBodyStopsAtUnknown(r, i, event) ==
  LET tr == Append(trace[r], Mark("visit", i))
      stop == Step("done", pos[r], NoFrame, tr, Resp(200, FALSE, "ok"))
  IN
  IF ~event.isObject THEN WebhookFailed(r, tr)
  ELSE IF event.type = "message"
    THEN IF event.message = "null" THEN WebhookFailed(r, tr)
         ELSE IF event.mtype = "text"
              THEN ProcessHealthcareMessage(r, tr, i, event)
              ELSE stop
    ELSE IF event.type = "follow"
         THEN SendWelcomeMessage(r, tr, i, event)
         ELSE stop

\* One iteration of the loop of _handle_webhook (lines 156-160).
LoopBody(r, i, event) ==
  LET tr == Append(trace[r], Mark("visit", i)) IN
  IF ~event.isObject THEN WebhookFailed(r, tr)
  ELSE IF event.type = "message"
    THEN IF event.message = "null" THEN WebhookFailed(r, tr)
         ELSE IF event.mtype = "text"
              THEN ProcessHealthcareMessage(r, tr, i, event)
              ELSE Continue(r, tr)
    ELSE IF event.type = "follow"
         THEN SendWelcomeMessage(r, tr, i, event)
         ELSE Continue(r, tr)

Apply(r, st) ==
  /\ pc' = [pc EXCEPT ![r] = st.pc]
  /\ pos' = [pos EXCEPT ![r] = st.pos]
  /\ frame' = [frame EXCEPT ![r] = st.frame]
  /\ trace' = [trace EXCEPT ![r] = st.trace]
  /\ response' = [response EXCEPT ![r] = st.response]

Events(r) == request[r].body.events

\* --------------------------------------------------------------- actions
\* on_fetch: a request arrives and request_data is built.
ReceiveFrom(r, requests) ==
  /\ r \in active
  /\ pc[r] = "idle"
  /\ \E req \in requests : request' = [request EXCEPT ![r] = req]
  /\ pc' = [pc EXCEPT ![r] = "handle"]
  /\ UNCHANGED <<env, active, pos, frame, trace, response, call>>

Receive(r) == ReceiveFrom(r, Requests)

\* A router that looks at the path only.
RouteByPath(method, path) ==
  IF path = "/health" THEN "health"
  ELSE IF path = "/webhook" THEN "webhook"
  ELSE IF path = "/test" THEN "test"
  ELSE IF method = "OPTIONS" THEN "preflight"
  ELSE "not_found"

\* The if/elif chain of handle_request.
Route(method, path) ==
  IF method = "OPTIONS" THEN "preflight"
  ELSE IF method = "GET" /\ path = "/health" THEN "health"
  ELSE IF method = "POST" /\ path = "/webhook" THEN "webhook"
  ELSE IF method = "GET" /\ path = "/test" THEN "test"
  ELSE "not_found"

\* A _handle_webhook that parses the body before it looks at the signature.
WebhookEntryParseFirst(channel_secret, headers, body) ==
  IF body.json # "object" THEN "webhook_failed"
  ELSE IF ~SignatureGate(channel_secret, headers, body)
       THEN "invalid_signature"
       ELSE "loop"

\* _handle_webhook up to the loop (lines 139-155): the signature gate, then
\* json.loads(body) and webhook_data.get('events').
WebhookEntry(channel_secret, headers, body) ==
  IF ~SignatureGate(channel_secret, headers, body) THEN "invalid_signature"
  ELSE IF body.json # "object" THEN "webhook_failed"
       ELSE "loop"

\* handle_request, and for the webhook route _handle_webhook up to the loop.
HandleRequest(r) ==
  /\ pc[r] = "handle"
  /\ LET req == request[r]
         route == Route(req.method, req.path)
         done(resp) == Step("done", 0, NoFrame, <<>>, resp)
     IN Apply(r,
          IF route = "preflight" THEN done(Resp(200, TRUE, "empty"))
          ELSE IF route = "health" THEN done(Resp(200, TRUE, "health"))
          ELSE IF route = "webhook"
            THEN LET entry == WebhookEntry(env.CHANNEL_SECRET, req.headers,
                                           req.body)
                 IN IF entry = "invalid_signature"
                    THEN done(Resp(400, FALSE, "invalid_signature"))
                    ELSE IF entry = "webhook_failed"
                         THEN done(Resp(500, FALSE, "webhook_failed"))
                         ELSE Step("loop", 1, NoFrame, <<>>, NoResponse)
          ELSE IF route = "test" THEN done(Resp(200, TRUE, "html"))
          ELSE done(Resp(404, TRUE, "not_found")))
  /\ UNCHANGED <<env, active, request, call>>

\* The loop over the events: the next event up to its first external call,
\* or the 200 response when the list is exhausted.
NextEvent(r) ==
  /\ pc[r] = "loop"
  /\ LET n == Len(Events(r)) IN
     Apply(r,
       IF pos[r] > n
       THEN Step("done", pos[r], NoFrame, trace[r], Resp(200, FALSE, "ok"))
       ELSE LET i == EventOrder(n)[pos[r]] IN LoopBody(r, i, Events(r)[i]))
  /\ UNCHANGED <<env, active, request, call>>

\* The AI call returns; _generate_ai_response ends and the dispatcher
\* formats and sends.
AICall(r) ==
  /\ pc[r] = "ai"
  /\ \E outcome \in AiOutcomes :
       LET f == frame[r]
           tr == Append(trace[r], Entry("aiout", f.ev, outcome, 0, <<>>))
           value == _generate_ai_response(_call_cloudflare_ai(outcome),
                                          f.language)
       IN Apply(r, FormatAndSend(r, tr, f, Events(r)[f.ev], value))
  /\ UNCHANGED <<env, active, request, call>>

\* The outbound call returns and _send_line_message ends.
SendLine(r) ==
  /\ pc[r] = "send"
  /\ \E outcome \in SendOutcomes :
       LET f == frame[r]
           tr == Append(trace[r], Entry("sent", f.ev, outcome, f.reply_token,
                                        f.message))
       IN Apply(r,
            IF _send_line_message(outcome) = "returns" THEN Continue(r, tr)
            ELSE IF f.handler = "try"
                 THEN ExceptClause(r, tr, f, Events(r)[f.ev])
                 ELSE WebhookFailed(r, tr))
  /\ UNCHANGED <<env, active, request, call>>

\* on_fetch hands the response to the runtime; the slot is free again.
Deliver(r) ==
  /\ pc[r] = "done"
  /\ pc' = [pc EXCEPT ![r] = "idle"]
  /\ request' = [request EXCEPT ![r] = NoRequest]
  /\ pos' = [pos EXCEPT ![r] = 0]
  /\ frame' = [frame EXCEPT ![r] = NoFrame]
  /\ trace' = [trace EXCEPT ![r] = <<>>]
  /\ response' = [response EXCEPT ![r] = NoResponse]
  /\ UNCHANGED <<env, active, call>>

\* No pure function is under test.
NoCall ==
  [fn |-> "none", raw |-> <<>>, intent |-> "", language |-> "",
   out |-> <<>>, again |-> <<>>, n |-> 0]

Idle ==
  /\ pc = [r \in ReqIds |-> "idle"]
  /\ request = [r \in ReqIds |-> NoRequest]
  /\ pos = [r \in ReqIds |-> 0]
  /\ frame = [r \in ReqIds |-> NoFrame]
  /\ trace = [r \in ReqIds |-> <<>>]
  /\ response = [r \in ReqIds |-> NoResponse]

\* The chatbot of a production deployment (ENVIRONMENT is read by the
\* health payload and by the except of handle_request only).
Init ==
  /\ env \in { e \in Envs : e.ENVIRONMENT = "production" }
  /\ active = {1}
  /\ call = NoCall
  /\ Idle

\* ------------------------------------------- the composer on its own
\* Raw answers handed to the composer: the empty text, an AI answer, the
\* fallback texts, the knowledge base entries, and an AI answer that quotes
\* the resource list itself.
RawAnswers ==
  { <<>>, AiAnswer, FallbackEn, FallbackTh, HivInfoEn, HivInfoTh,
    PrepInfoEn, PrepInfoTh, StdInfoEn, StdInfoTh, AiAnswer \o ResourcesEn }

ComposeCall(raw, intent, language) ==
  [fn |-> "compose", raw |-> raw, intent |-> intent, language |-> language,
   out |-> <<>>, again |-> <<>>, n |-> 0]

InitCompose ==
  /\ env = BareEnv
  /\ active = {}
  /\ call \in { ComposeCall(raw, intent, language) :
                  raw \in RawAnswers, intent \in Intents,
                  language \in Languages }
  /\ Idle

\* _format_healthcare_response(raw, intent, language)
Compose ==
  /\ call.fn = "compose" /\ call.n = 0
  /\ call' = [call EXCEPT
               !.out = _format_healthcare_response(call.raw, call.intent,
                                                   call.language),
               !.n = 1]
  /\ UNCHANGED <<env, active, pc, request, pos, frame, trace, response>>

\* _format_healthcare_response applied to its own result
ComposeAgain ==
  /\ call.fn = "compose" /\ call.n = 1
  /\ call' = [call EXCEPT
               !.again = _format_healthcare_response(call.out, call.intent,
                                                     call.language),
               !.n = 2]
  /\ UNCHANGED <<env, active, pc, request, pos, frame, trace, response>>

NextCompose == Compose \/ ComposeAgain

SpecCompose == InitCompose /\ [][NextCompose]_vars

Next ==
  \E r \in ReqIds :
    \/ Receive(r)
    \/ HandleRequest(r)
    \/ NextEvent(r)
    \/ AICall(r)
    \/ SendLine(r)
    \/ Deliver(r)

Spec == Init /\ [][Next]_vars

\* ------------------------------------------- two requests in flight
\* Envelopes of concurrent webhook requests; the replyTokens of the two
\* families differ, so that a reply is traced to its request.
ConcurrentBodies ==
  { MalformedBody,
    Envelope(<<TextMessage(TextHello, 1)>>),
    Envelope(<<TextMessage(TextHivEn, 1), FollowEvent(2)>>),
    Envelope(<<TextMessage(TextSawasdee, 3)>>),
    Envelope(<<FollowEvent(3), TextMessage(TextPrepTh, 4)>>),
    Envelope(<<TextMessage(TextHello, 3), AnonymousTextMessage(TextHivEn, 4)>>),
    Envelope(<<NullSourceMessage(TextHello, 3)>>) }

ConcurrentRequests ==
  { Request("POST", "/webhook", WithHeader("x-line-signature",
                                           Mac(ChannelSecret, b)), b) :
      b \in ConcurrentBodies }
  \cup { Request("POST", "/webhook", ContentTypeOnly,
                  Envelope(<<TextMessage(TextHello, 1)>>)),
          Request("GET", "/health", ContentTypeOnly, MalformedBody) }

\* on_fetch is entered for a second request while the first is suspended
\* in an await: two slots accept requests.
InitConcurrent ==
  /\ env \in { e \in Envs : e.ENVIRONMENT = "production" }
  /\ active = {1, 2}
  /\ call = NoCall
  /\ Idle

ReceiveConcurrent(r) == ReceiveFrom(r, ConcurrentRequests)

NextConcurrent ==
  \E r \in ReqIds :
    \/ ReceiveConcurrent(r)
    \/ HandleRequest(r)
    \/ NextEvent(r)
    \/ AICall(r)
    \/ SendLine(r)
    \/ Deliver(r)

SpecConcurrent == InitConcurrent /\ [][NextConcurrent]_vars

\* ------------------------------------------------------------ progress
\* The steps of a request in flight.  The interpreter runs the coroutine
\* on, and every AI call and outbound call returns or raises in the end.
Proceed(r) == HandleRequest(r) \/ NextEvent(r) \/ AICall(r) \/ SendLine(r)

\* The slots that accept requests in the specification of progress.
LiveSlots == {1}

Fairness == \A r \in LiveSlots : WF_vars(Proceed(r))

\* Requests of every route, with every shape of event alone in its
\* envelope and after a General message, under a missing, a valid and a
\* wrong signature.
LiveBodies ==
  { MalformedBody, ArrayBody, Envelope(<<>>) }
  \cup { Envelope(<<e>>) : e \in EventChoices(1) }
  \cup { Envelope(<<TextMessage(TextHello, 1), e>>) : e \in EventChoices(2) }

LiveRequests ==
  { Request(m, p, ContentTypeOnly, MalformedBody) :
      m \in Methods, p \in Paths }
  \cup UNION { { Request("POST", "/webhook", ContentTypeOnly, b),
                 Request("POST", "/webhook",
                         WithHeader("x-line-signature",
                                    Mac(ChannelSecret, b)), b),
                 Request("POST", "/webhook",
                         WithHeader("x-line-signature", Mac("guess", b)), b) }
               : b \in LiveBodies }

ReceiveLive(r) == ReceiveFrom(r, LiveRequests)

NextLive ==
  \E r \in ReqIds :
    \/ ReceiveLive(r)
    \/ HandleRequest(r)
    \/ NextEvent(r)
    \/ AICall(r)
    \/ SendLine(r)
    \/ Deliver(r)

InitLive ==
  /\ env \in { e \in Envs : e.ENVIRONMENT = "production" }
  /\ active = LiveSlots
  /\ call = NoCall
  /\ Idle

SpecLive == InitLive /\ [][NextLive]_vars /\ Fairness

\* ------------------------------------------------- events that are skipped
\* The events of the envelopes with events to skip: the three kinds the
\* loop passes over, among events that are answered and one that raises.
SkipChoices(token) ==
  { ImageMessage(token), UnfollowEvent(token), TypelessEvent(token),
    TextMessage(TextHello, token), TextMessage(TextHivEn, token),
    FollowEvent(token), NullSourceMessage(TextHello, token) }

SkipEnvelopes ==
  UNION { { Envelope(s) :
              s \in { q \in [1..n -> UNION { SkipChoices(t) : t \in 1..MaxEvents }] :
                        \A i \in 1..n : q[i] \in SkipChoices(i) } }
          : n \in 0..MaxEvents }

\* An object without "events" reads as Envelope(<<>>) as well.
SkipRequests ==
  { Request("POST", "/webhook", ContentTypeOnly, b) : b \in SkipEnvelopes }

InitSkip ==
  /\ env \in { e \in Envs : e.CHANNEL_SECRET = ""
                             /\ e.ENVIRONMENT = "production" }
  /\ active = {1}
  /\ call = NoCall
  /\ Idle

ReceiveSkip(r) == ReceiveFrom(r, SkipRequests)

NextSkip ==
  \E r \in ReqIds :
    \/ ReceiveSkip(r)
    \/ HandleRequest(r)
    \/ NextEvent(r)
    \/ AICall(r)
    \/ SendLine(r)
    \/ Deliver(r)

SpecSkip == InitSkip /\ [][NextSkip]_vars

\* The chatbot under every configuration, development included.
InitAnyEnvironment ==
  /\ env \in Envs
  /\ active = {1}
  /\ call = NoCall
  /\ Idle

SpecAnyEnvironment == InitAnyEnvironment /\ [][Next]_vars

TypeOK ==
  /\ env \in Envs
  /\ \A r \in ReqIds :
       /\ pc[r] \in {"idle", "handle", "loop", "ai", "send", "done"}
       /\ pos[r] \in 0..(MaxEvents + 1)
       /\ response[r].statusCode \in {0, 200, 400, 404, 500}

\* ================================================================ claims
IsWebhook(r) == request[r].method = "POST" /\ request[r].path = "/webhook"

Answered(r) == pc[r] = "done"

\* The request passed the signature gate and its body parsed as an
\* envelope: the loop over the events has been reached.
Dispatching(r) ==
  /\ pc[r] \in {"loop", "ai", "send", "done"}
  /\ IsWebhook(r)
  /\ SignatureGate(env.CHANNEL_SECRET, request[r].headers, request[r].body)
  /\ request[r].body.json = "object"

\* The positions of the trace of r where operation op was done for event i.
At(r, op, i) ==
  { k \in DOMAIN trace[r] : trace[r][k].op = op /\ trace[r][k].ev = i }

Count(r, op, i) == Cardinality(At(r, op, i))

EventIds(r) == 1..Len(Events(r))

\* C1: every text Message event of an authenticated, parsed envelope gets
\* exactly one outbound reply attempt with its replyToken, whatever the
\* outcomes of the external calls and the configuration: never more than
\* one at any time, and exactly one when the request is answered.
C1_ExactlyOneReplyAttempt ==
  \A r \in ReqIds :
    Dispatching(r) =>
      \A i \in EventIds(r) :
        IsTextMessage(Events(r)[i]) =>
          /\ Count(r, "send", i) <= 1
          /\ \A k \in At(r, "send", i) :
               trace[r][k].token = Events(r)[i].replyToken
          /\ Answered(r) => Count(r, "send", i) = 1

\* A signature header under either spelling of its name.
SignatureNames == {"x-line-signature", "X-Line-Signature"}

\* The request carries no signature, an empty one or one that is not the
\* MAC of its body under the configured secret.
BadSignature(r) ==
  LET h == request[r].headers IN
  \A name \in SignatureNames \cap DOMAIN h :
    \/ h[name].kind = "empty"
    \/ h[name] # Mac(env.CHANNEL_SECRET, request[r].body)

C3_EveryEventAttempted ==
  \A r \in ReqIds :
    (Dispatching(r) /\ Answered(r)) =>
      \A i \in EventIds(r) : Count(r, "visit", i) >= 1

\* C4: a POST /webhook request that passes the signature gate and whose body
\* parses as an envelope is answered with 200, and only after every event
\* has been attempted, whatever the outcome of each event.
C4_OkAfterAllEvents ==
  \A r \in ReqIds :
    (Dispatching(r) /\ Answered(r)) =>
      /\ response[r].statusCode = 200
      /\ \A i \in EventIds(r) : Count(r, "visit", i) >= 1

\* C5: the events of an envelope are processed one after the other in the
\* received order: everything done for event i, its outbound call included,
\* comes before anything done for an event j > i, and the outbound calls
\* follow the order of the envelope without repetition.
C5_SequentialInOrder ==
  \A r \in ReqIds :
    \A k, l \in DOMAIN trace[r] :
      k < l =>
        /\ trace[r][k].ev <= trace[r][l].ev
        /\ (trace[r][k].op = "send" /\ trace[r][l].op = "send")
             => trace[r][k].ev < trace[r][l].ev

C5_Witness ==
  \E r \in ReqIds :
    /\ Answered(r)
    /\ Len(Events(r)) >= 2
    /\ Count(r, "sent", 1) = 1
    /\ Count(r, "aiout", 2) = 1
    /\ Count(r, "sent", 2) = 1

\* C6: no event is retried: for each event the dispatcher is entered at
\* most once, the AI is called at most once and the outbound client is
\* called at most once, also when the AI call or the outbound call fails.
C6_NoRetry ==
  \A r \in ReqIds :
    \A i \in EventIds(r) :
      /\ Count(r, "enter", i) <= 1
      /\ Count(r, "ai", i) <= 1
      /\ Count(r, "aiout", i) <= 1
      /\ Count(r, "send", i) <= 1
      /\ Count(r, "sent", i) <= 1

AiFailures == {"raises", "status_error", "unsuccessful"}

C6_Witness ==
  \E r \in ReqIds :
    /\ Answered(r)
    /\ \E k \in At(r, "aiout", 1) : trace[r][k].out \in AiFailures
    /\ \E k \in At(r, "sent", 1) : trace[r][k].out = "raises"
    /\ \E k \in At(r, "sent", 2) : trace[r][k].out = "status_error"

\* t ends with the text suffix.
EndsWith(t, suffix) ==
  /\ Len(t) >= Len(suffix)
  /\ SubSeq(t, Len(t) - Len(suffix) + 1, Len(t)) = suffix

\* The language and the topic of the text of event i of request r.
LangOf(r, i) == _detect_language(Events(r)[i].text)

TopicOf(r, i) == _classify_healthcare_intent(Events(r)[i].text)

\* C7: with an AI that always fails (raises, non-200 status, success =
\* false), a General-topic Message event still gets exactly one outbound
\* reply, whose text contains the fallback text of the detected language and
\* no resource list, and the HTTP response is 200.
C7_AiFailureOneFallbackReply ==
  \A r \in ReqIds :
    ( /\ Dispatching(r) /\ Answered(r)
      /\ \A k \in DOMAIN trace[r] :
           trace[r][k].op = "aiout" => trace[r][k].out \in AiFailures )
    => \A i \in EventIds(r) :
         Count(r, "aiout", i) > 0 =>
           /\ Count(r, "send", i) = 1
           /\ \A k \in At(r, "send", i) :
                /\ IsSubstring(_get_fallback_response(LangOf(r, i)),
                               trace[r][k].text)
                /\ ~IsSubstring(Resources(LangOf(r, i)), trace[r][k].text)
           /\ response[r].statusCode = 200

\* A failure of an external call: the AI call fails, or the outbound call
\* raises or returns a non-200 status.
IsFailure(e) ==
  \/ e.op = "aiout" /\ e.out \in AiFailures
  \/ e.op = "sent" /\ e.out # "ok"

\* C8 (as claimed): after a failure at any step of the processing of a
\* Message event, an outbound dispatch error included, the dispatcher is in
\* the Fallback state: the fallback text is substituted as the answer for
\* that event (it is composed or handed to the outbound client afterwards).
C8_AnyFailureLeadsToFallback ==
  \A r \in ReqIds :
    Answered(r) =>
      \A k \in DOMAIN trace[r] :
        LET e == trace[r][k] IN
        (IsFailure(e) /\ IsTextMessage(Events(r)[e.ev])) =>
          \E l \in DOMAIN trace[r] :
            /\ l > k
            /\ trace[r][l].ev = e.ev
            /\ trace[r][l].op \in {"format", "send"}
            /\ IsSubstring(_get_fallback_response(LangOf(r, e.ev)),
                           trace[r][l].text)

\* C8 (amended): a failed AI call (it raises, returns a non-200 status,
\* success = false or a null result) makes the dispatcher substitute the
\* fallback text of the detected language as the raw answer, which is
\* composed and, when an access token is configured, dispatched; an AI
\* answer that is not a text makes composing raise, and the except clause
\* dispatches the bare fallback text; an outbound dispatch error does not
\* lead to Fallback: nothing more is done for that event.
C8_FailureHandling ==
  \A r \in ReqIds :
    \A k \in DOMAIN trace[r] :
      LET e == trace[r][k]
          tr == trace[r]
          fallback == _get_fallback_response(LangOf(r, e.ev))
          composed == fallback \o Disclaimer(LangOf(r, e.ev))
          token == Events(r)[e.ev].replyToken
          sends(text) ==
            IF env.CHANNEL_ACCESS_TOKEN # ""
            THEN /\ k + 2 \in DOMAIN tr
                 /\ tr[k + 2] = Entry("send", e.ev, "", token, text)
            ELSE Count(r, "send", e.ev) = 0
      IN /\ (e.op = "aiout" /\ e.out \in AiFailures \cup {"null_result"}) =>
              /\ k + 1 \in DOMAIN tr
              /\ tr[k + 1] = Entry("format", e.ev, "", 0, composed)
              /\ sends(composed)
         /\ (e.op = "aiout" /\ e.out = "null_response") =>
              /\ k + 1 \in DOMAIN tr
              /\ tr[k + 1] = Mark("fallback", e.ev)
              /\ sends(fallback)
         /\ (e.op = "sent" /\ e.out # "ok") =>
              \A l \in DOMAIN tr : l > k => tr[l].ev # e.ev

C8_Witness ==
  \E r \in ReqIds :
    /\ Answered(r)
    /\ response[r].statusCode = 200
    /\ \E k \in At(r, "aiout", 1) : trace[r][k].out = "status_error"
    /\ \E k \in At(r, "sent", 1) : trace[r][k].out = "raises"
    /\ \E k \in At(r, "aiout", 2) : trace[r][k].out = "null_response"
    /\ \E k \in At(r, "sent", 2) : trace[r][k].out = "status_error"

\* C9 (as claimed): every text handed to the outbound client in reply to a
\* Message event ends with the disclaimer of the detected language, and for
\* the topics HIV, PrEP and STD the resource list of that language stands
\* right before the disclaimer, on every path through the dispatcher.
C9_EveryReplyEndsWithDisclaimer ==
  \A r \in ReqIds :
    \A k \in DOMAIN trace[r] :
      LET e == trace[r][k] IN
      (e.op = "send" /\ IsTextMessage(Events(r)[e.ev])) =>
        /\ EndsWith(e.text, Disclaimer(LangOf(r, e.ev)))
        /\ TopicOf(r, e.ev) \in {"hiv", "prep", "std"} =>
             EndsWith(e.text, Resources(LangOf(r, e.ev))
                              \o Disclaimer(LangOf(r, e.ev)))

\* C9 (amended): every reply the try block of the dispatcher hands to the
\* outbound client ends with the disclaimer of the detected language, and
\* for the topics HIV, PrEP and STD it is the knowledge base entry, the
\* resource list of that language and the disclaimer, in this order; the
\* reply of the except clause (General topic, composing raised) is the bare
\* fallback text of the detected language, without a disclaimer.
C9_DisclaimerUnlessExceptClause ==
  \A r \in ReqIds :
    \A k \in DOMAIN trace[r] :
      LET e == trace[r][k]
          lang == LangOf(r, e.ev)
          topic == TopicOf(r, e.ev)
      IN (e.op = "send" /\ IsTextMessage(Events(r)[e.ev])) =>
           IF Count(r, "fallback", e.ev) > 0
           THEN /\ topic = "general"
                /\ e.text = _get_fallback_response(lang)
                /\ ~EndsWith(e.text, Disclaimer(lang))
           ELSE /\ EndsWith(e.text, Disclaimer(lang))
                /\ topic \in {"hiv", "prep", "std"} =>
                     e.text = healthcare_responses[topic][lang]
                              \o Resources(lang) \o Disclaimer(lang)
                /\ topic = "general" =>
                     e.text \in { AiAnswer \o Disclaimer(lang),
                                  _get_fallback_response(lang)
                                    \o Disclaimer(lang) }

C9_Witness ==
  \E r \in ReqIds :
    /\ Answered(r)
    /\ Len(Events(r)) >= 2
    /\ Events(r)[1].text = TextPrepTh
    /\ Count(r, "sent", 1) = 1
    /\ Count(r, "fallback", 2) = 1
    /\ Count(r, "sent", 2) = 1

\* C10: compose(raw, topic, lang) is raw verbatim, then the resource list
\* of lang if and only if the topic is not General, then the disclaimer of
\* lang: the result ends with the disclaimer, for HIV, PrEP and STD it
\* contains the resource list, for General nothing but the disclaimer is
\* added; composing the result again appends the blocks a second time.
C10_ComposeOrder ==
  (call.fn = "compose" /\ call.n >= 1) =>
    LET raw == call.raw
        o == call.out
        d == IF call.language = "th" THEN DisclaimerTh ELSE DisclaimerEn
        res == IF call.language = "th" THEN ResourcesTh ELSE ResourcesEn
        added == SubSeq(o, Len(raw) + 1, Len(o))
    IN /\ Len(o) >= Len(raw)
       /\ SubSeq(o, 1, Len(raw)) = raw
       /\ EndsWith(o, d)
       /\ call.intent # "general" => (added = res \o d /\ IsSubstring(res, o))
       /\ call.intent = "general" => added = d
       /\ call.n = 2 =>
            /\ call.again # o
            /\ call.again = o \o added
            /\ EndsWith(call.again, d)

C10_Witness ==
  /\ call.fn = "compose"
  /\ call.n = 2
  /\ call.intent = "hiv"
  /\ call.language = "th"
  /\ call.raw = HivInfoTh
  /\ call.again = HivInfoTh \o ResourcesTh \o DisclaimerTh
                            \o ResourcesTh \o DisclaimerTh

\* C11: without a channel secret the signature is not looked at: a POST
\* /webhook request whose envelope holds one text Message event is answered
\* with 200 after exactly one outbound reply attempt, whatever the
\* signature header is.
C11_OpenModeOneReply ==
  \A r \in ReqIds :
    ( /\ Answered(r)
      /\ IsWebhook(r)
      /\ env.CHANNEL_SECRET = ""
      /\ request[r].body.json = "object"
      /\ Len(Events(r)) = 1
      /\ IsTextMessage(Events(r)[1]) )
    => /\ response[r].statusCode = 200
       /\ Count(r, "send", 1) = 1

\* ------------------------------------- the signature check on its own
VerifyKeys == {ChannelSecret, "guess"}

VerifyBodies ==
  { MalformedBody, ArrayBody, Envelope(<<>>),
    Envelope(<<TextMessage(TextHello, 1)>>) }

\* The signatures a sender may present: none of substance, a malformed
\* one, the MAC of any body under any key, and such a MAC with one byte
\* changed.
VerifySignatures ==
  { EmptyValue, OtherValue, NonAsciiValue }
  \cup { Mac(k, b) : k \in VerifyKeys, b \in VerifyBodies }
  \cup { MutatedMac(k, b) : k \in VerifyKeys, b \in VerifyBodies }

VerifyCall(secret, body, signature, result, n) ==
  [fn |-> "verify", secret |-> secret, body |-> body,
   signature |-> signature, result |-> result, n |-> n]

InitVerify ==
  /\ env = BareEnv
  /\ active = {}
  /\ \E k \in VerifyKeys, b \in VerifyBodies, s \in VerifySignatures :
       call = VerifyCall(k, b, s, "none", 0)
  /\ Idle

\* _verify_signature(body, signature) with the secret of the chatbot.
Verify ==
  /\ call.fn = "verify"
  /\ call.n = 0
  /\ call' = [call EXCEPT
                !.result = VerifyOutcome(call.secret, call.body,
                                         call.signature),
                !.n = 1]
  /\ UNCHANGED <<env, active, pc, request, pos, frame, trace, response>>

SpecVerify == InitVerify /\ [][Verify]_vars

\* C12: _verify_signature always returns, True or False and never an
\* exception; it returns True exactly when the signature is the MAC of the
\* body under the secret, so False for the MAC of the body with a byte
\* changed (another body), for the MAC with a byte changed, for the MAC
\* under another key and for empty and malformed signatures.
C12_VerifyIffMac ==
  (call.fn = "verify" /\ call.n = 1) =>
    LET sig == call.signature IN
    /\ call.result \in {"True", "False"}
    /\ call.result = "True" <=>
         /\ sig.kind = "mac"
         /\ sig.key = call.secret
         /\ sig.body = call.body
    /\ sig.kind \in {"empty", "other", "nonascii", "mutated"}
         => call.result = "False"

C12_Witness ==
  /\ call.fn = "verify"
  /\ call.n = 1
  /\ call.signature = NonAsciiValue
  /\ call.result = "False"

\* --------------------------------------------- the classifier on its own
\* Fragments of user messages: keywords of each topic in either language
\* and in mixed case, a keyword cut in two ("ST", "D"), and fragments with
\* no keyword ("Hello", a space).
TextParts ==
  { <<72, 73, 86>>,                        \* "HIV"
    <<97, 105, 100, 115>>,                 \* "aids"
    <<3648, 3629, 3604, 3626, 3660>>,      \* Thai keyword of HIV
    <<80, 114, 69, 80>>,                   \* "PrEP"
    <<3648, 3614, 3619, 3614>>,            \* Thai keyword of PrEP
    <<83, 116, 105>>,                      \* "Sti"
    <<83, 84>>,                            \* "ST"
    <<68>>,                                \* "D"
    <<72, 101, 108, 108, 111>>,            \* "Hello"
    <<32>> }                               \* " "

RECURSIVE Joined(_)
\* The texts put together from exactly n fragments.
Joined(n) ==
  IF n = 0 THEN { <<>> }
  ELSE { t \o p : t \in Joined(n - 1), p \in TextParts }

ClassifyTexts == UNION { Joined(n) : n \in 0..MaxParts }

ClassifyCall(text, result, n) ==
  [fn |-> "classify", text |-> text, result |-> result, n |-> n]

InitClassify ==
  /\ env = BareEnv
  /\ active = {}
  /\ \E t \in ClassifyTexts : call = ClassifyCall(t, "none", 0)
  /\ Idle

\* _classify_healthcare_intent(message)
Classify ==
  /\ call.fn = "classify"
  /\ call.n = 0
  /\ call' = [call EXCEPT
                !.result = _classify_healthcare_intent(call.text),
                !.n = 1]
  /\ UNCHANGED <<env, active, pc, request, pos, frame, trace, response>>

SpecClassify == InitClassify /\ [][Classify]_vars

\* The text has, at some position and in whatever case, one of the keywords.
Mentions(text, keywords) ==
  \E kw \in keywords :
    \E i \in 1..Len(text) :
      /\ i + Len(kw) - 1 <= Len(text)
      /\ \A j \in 1..Len(kw) : LowerChar(text[i + j - 1]) = kw[j]

\* C13: the topic of a text is HIV when it mentions an HIV keyword, else
\* PrEP when it mentions a PrEP keyword, else STD when it mentions an STD
\* keyword, else General: a text mentioning keywords of several topics gets
\* the first of them in that order, and a text mentioning any keyword never
\* gets General.
C13_FirstTopicWins ==
  (call.fn = "classify" /\ call.n = 1) =>
    LET t == call.text IN
    /\ Mentions(t, HivKeywords) => call.result = "hiv"
    /\ (~Mentions(t, HivKeywords) /\ Mentions(t, PrepKeywords))
         => call.result = "prep"
    /\ ( /\ ~Mentions(t, HivKeywords)
         /\ ~Mentions(t, PrepKeywords)
         /\ Mentions(t, StdKeywords) ) => call.result = "std"
    /\ call.result = "general"
         <=> ~Mentions(t, HivKeywords \cup PrepKeywords \cup StdKeywords)

\* "Sti", "PrEP" and "aids" in one text: all three topics, HIV wins.
C13_Witness ==
  /\ call.fn = "classify"
  /\ call.n = 1
  /\ call.text = <<83, 116, 105, 80, 114, 69, 80, 97, 105, 100, 115>>
  /\ call.result = "hiv"

\* ----------------------------------------------- the detector on its own
\* "A", a space, the code points just before and just after the Thai
\* block, and its first and last code point.
DetectChars == {65, 32, 3583, ThaiBlockFirst, ThaiBlockLast, 3712}

DetectTexts == UNION { [1..n -> DetectChars] : n \in 0..MaxTextLen }

DetectCall(text, result, n) ==
  [fn |-> "detect", text |-> text, result |-> result, n |-> n]

InitDetect ==
  /\ env = BareEnv
  /\ active = {}
  /\ \E t \in DetectTexts : call = DetectCall(t, "none", 0)
  /\ Idle

\* _detect_language(text)
Detect ==
  /\ call.fn = "detect"
  /\ call.n = 0
  /\ call' = [call EXCEPT !.result = _detect_language(call.text), !.n = 1]
  /\ UNCHANGED <<env, active, pc, request, pos, frame, trace, response>>

SpecDetect == InitDetect /\ [][Detect]_vars

\* C14: the detector answers for every text, Thai or English; Thai exactly
\* when some code point of the text lies in U+0E00..U+0E7F, so English for
\* the empty text and for texts of ASCII only, and Thai for a text with a
\* single Thai code point among others.
C14_ThaiIffThaiCodePoint ==
  (call.fn = "detect" /\ call.n = 1) =>
    LET t == call.text
        thai == { i \in 1..Len(t) : t[i] \in 3584..3711 }
    IN /\ call.result \in {"th", "en"}
       /\ call.result = "th" <=> thai # {}
       /\ t = <<>> => call.result = "en"
       /\ (\A i \in 1..Len(t) : t[i] < 128) => call.result = "en"
       /\ Cardinality(thai) = 1 => call.result = "th"

\* "A", U+0E7F, " ": one Thai code point between two ASCII ones.
C14_Witness ==
  /\ call.fn = "detect"
  /\ call.n = 1
  /\ call.text = <<65, 3711, 32>>
  /\ call.result = "th"

\* C15: handle_request routes by method and path in a fixed order: OPTIONS
\* on any path gives 200 with an empty body and no event is processed; GET
\* /health gives 200 with the health JSON; POST /webhook goes through the
\* signature gate to the processing of the events; GET /test gives 200
\* with the HTML page; every other pair gives 404 with the JSON list of the
\* endpoints and no event is processed.
C15_RoutingTable ==
  \A r \in ReqIds :
    LET m == request[r].method
        p == request[r].path
        resp == response[r]
        gate == SignatureGate(env.CHANNEL_SECRET, request[r].headers,
                              request[r].body)
    IN /\ ~(m = "POST" /\ p = "/webhook") => trace[r] = <<>>
       /\ Answered(r) =>
            /\ m = "OPTIONS" => (resp.statusCode = 200 /\ resp.body = "empty")
            /\ (m = "GET" /\ p = "/health")
                 => (resp.statusCode = 200 /\ resp.body = "health")
            /\ (m = "POST" /\ p = "/webhook") =>
                 /\ ~gate => ( /\ resp.statusCode = 400
                               /\ resp.body = "invalid_signature"
                               /\ trace[r] = <<>> )
                 /\ gate => ( /\ resp.statusCode \in {200, 500}
                              /\ resp.body \in {"ok", "webhook_failed"} )
            /\ (m = "GET" /\ p = "/test")
                 => (resp.statusCode = 200 /\ resp.body = "html")
            /\ ( /\ m # "OPTIONS"
                 /\ <<m, p>> \notin { <<"GET", "/health">>,
                                      <<"POST", "/webhook">>,
                                      <<"GET", "/test">> } )
                 => (resp.statusCode = 404 /\ resp.body = "not_found")

\* GET /webhook with an envelope as its body is not the webhook route: 404.
C15_Witness ==
  \E r \in ReqIds :
    /\ Answered(r)
    /\ request[r].method = "GET"
    /\ request[r].path = "/webhook"
    /\ request[r].body = Envelope(<<TextMessage(TextHello, 1)>>)
    /\ response[r].statusCode = 404
    /\ trace[r] = <<>>

\* C16: every response of handle_request, on every route and with every
\* status, the responses of the webhook route included, carries the CORS
\* headers and the request correlation id header.
C16_CorsAndRequestIdEverywhere ==
  \A r \in ReqIds :
    Answered(r) => cors_headers \subseteq HeaderNames(response[r])

\* C17: with a channel secret configured, a POST /webhook request that
\* carries the correct signature of its body passes the signature gate
\* under either spelling of the header name, x-line-signature or
\* X-Line-Signature.
C17_SignatureHeaderAnyCase ==
  \A r \in ReqIds :
    ( /\ Answered(r)
      /\ IsWebhook(r)
      /\ env.CHANNEL_SECRET # ""
      /\ \E name \in SignatureNames \cap DOMAIN request[r].headers :
           request[r].headers[name]
             = Mac(env.CHANNEL_SECRET, request[r].body) )
    => response[r].statusCode # 400

\* The request passed the signature gate and its body does not parse as a
\* JSON object.
MalformedPastGate(r) ==
  /\ IsWebhook(r)
  /\ SignatureGate(env.CHANNEL_SECRET, request[r].headers, request[r].body)
  /\ request[r].body.json # "object"

\* C18: a POST /webhook request that passes the signature gate and whose
\* body is malformed is answered with 500 without any AI call or outbound
\* attempt, and the message of the response is the generic one in
\* production and the text of the error otherwise.
C18_MalformedBodyMessageByEnvironment ==
  \A r \in ReqIds :
    (Answered(r) /\ MalformedPastGate(r)) =>
      /\ response[r].statusCode = 500
      /\ trace[r] = <<>>
      /\ env.ENVIRONMENT = "production"
           => response[r].body \in {"webhook_failed", "an_error_occurred"}
      /\ env.ENVIRONMENT # "production"
           => response[r].body = InternalServerError(env.ENVIRONMENT).body

\* C19: every Follow event of an authenticated, parsed envelope gets exactly
\* one hand-over of the fixed bilingual welcome message to the outbound
\* client, with the replyToken of the event, and neither classification
\* nor knowledge base lookup nor AI call: never more than one hand-over at
\* any time, and exactly one when the request is answered.
C19_FollowGetsOneWelcome ==
  \A r \in ReqIds :
    Dispatching(r) =>
      \A i \in EventIds(r) :
        IsFollow(Events(r)[i]) =>
          /\ Count(r, "send", i) <= 1
          /\ \A k \in At(r, "send", i) :
               /\ trace[r][k].token = Events(r)[i].replyToken
               /\ trace[r][k].text = WelcomeMessage
          /\ Count(r, "classify", i) = 0
          /\ Count(r, "format", i) = 0
          /\ Count(r, "ai", i) = 0
          /\ Answered(r) => Count(r, "send", i) = 1

\* The text begins with the prefix.
StartsWith(t, prefix) ==
  Len(t) >= Len(prefix) /\ SubSeq(t, 1, Len(prefix)) = prefix

KnowledgeBaseTexts ==
  { healthcare_responses[topic][lang] :
      topic \in DOMAIN healthcare_responses, lang \in Languages }

\* C20: the source of the raw answer of a classified Message event is
\* decided by its topic alone.  The knowledge base has an entry for each of
\* HIV, PrEP, STD in each of the two languages; for these topics the raw
\* answer is the entry of (topic, language) and the AI service is never
\* called; for General the AI service is called exactly once and no
\* knowledge base entry is used.
C20_SourceByTopic ==
  /\ \A topic \in {"hiv", "prep", "std"}, lang \in {"en", "th"} :
       /\ topic \in DOMAIN healthcare_responses
       /\ lang \in DOMAIN healthcare_responses[topic]
  /\ \A r \in ReqIds :
       Dispatching(r) =>
         \A i \in EventIds(r) :
           Count(r, "classify", i) > 0 =>
             LET topic == TopicOf(r, i)
                 lang == LangOf(r, i)
                 composed == { trace[r][k].text : k \in At(r, "format", i) }
             IN /\ Count(r, "classify", i) = 1
                /\ topic \in {"hiv", "prep", "std"} =>
                     /\ Count(r, "ai", i) = 0
                     /\ Count(r, "format", i) = 1
                     /\ \A t \in composed :
                          StartsWith(t, healthcare_responses[topic][lang])
                /\ topic = "general" =>
                     /\ Count(r, "ai", i) = 1
                     /\ \A t \in composed :
                          \A kb \in KnowledgeBaseTexts : ~StartsWith(t, kb)

\* An envelope with a PrEP question in Thai and a General message: the
\* first is answered from the knowledge base, the second by one AI call.
C20_Witness ==
  \E r \in ReqIds :
    /\ Answered(r)
    /\ Dispatching(r)
    /\ Len(Events(r)) = 2
    /\ Events(r)[1].text = TextPrepTh
    /\ Events(r)[2].text = TextHello
    /\ Count(r, "classify", 1) = 1
    /\ Count(r, "ai", 1) = 0
    /\ \E k \in At(r, "format", 1) :
         StartsWith(trace[r][k].text, PrepInfoTh)
    /\ Count(r, "ai", 2) = 1

\* The request of the webhook simulation of test.py on the chatbot of
\* test_env: secret and access token configured, content-type as the only
\* header, an envelope with one well-formed text Message event about HIV.
IsWebhookSimulation(r) ==
  /\ IsWebhook(r)
  /\ env.CHANNEL_SECRET # ""
  /\ env.CHANNEL_ACCESS_TOKEN # ""
  /\ request[r].headers = ContentTypeOnly
  /\ request[r].body = Envelope(<<TextMessage(TextHivEn, 1)>>)

Reply(e, token, text) ==
  IF e.CHANNEL_ACCESS_TOKEN # ""
  THEN <<[token |-> token, text |-> text]>>
  ELSE <<>>

Raised == [abort |-> TRUE, sends |-> <<>>]

Returned(sends) == [abort |-> FALSE, sends |-> sends]

\* _process_healthcare_message alone, for a text Message event.
AloneMessage(e, event, aiOutcome) ==
  IF event.source = "null" \/ event.textKind = "null" THEN Raised
  ELSE IF event.textKind = "list" THEN Raised
  ELSE
    LET intent == _classify_healthcare_intent(event.text)
        language == _detect_language(event.text)
        raw == IF intent \in {"hiv", "prep", "std"}
               THEN Str(healthcare_responses[intent][language])
               ELSE _generate_ai_response(_call_cloudflare_ai(aiOutcome),
                                          language)
        text == IF raw.isStr
                THEN _format_healthcare_response(raw.str, intent, language)
                ELSE _get_fallback_response(language)
    IN Returned(Reply(e, event.replyToken, text))

\* One iteration of the loop of _handle_webhook alone.
AloneEvent(e, event, aiOutcome) ==
  IF ~event.isObject THEN Raised
  ELSE IF event.type = "message"
    THEN IF event.message = "null" THEN Raised
         ELSE IF event.mtype = "text"
              THEN AloneMessage(e, event, aiOutcome)
              ELSE Returned(<<>>)
    ELSE IF event.type = "follow"
         THEN Returned(Reply(e, event.replyToken, WelcomeMessage))
         ELSE Returned(<<>>)

RECURSIVE AloneFrom(_, _, _, _)
\* The loop of _handle_webhook alone, from the i-th event on.
AloneFrom(e, events, aiOutcomes, i) ==
  IF i > Len(events) THEN [status |-> 200, sends |-> <<>>]
  ELSE LET one == AloneEvent(e, events[i], aiOutcomes[i]) IN
       IF one.abort THEN [status |-> 500, sends |-> <<>>]
       ELSE LET rest == AloneFrom(e, events, aiOutcomes, i + 1)
            IN [status |-> rest.status, sends |-> one.sends \o rest.sends]

\* handle_request alone.
Alone(e, req, aiOutcomes) ==
  LET none(status) == [status |-> status, sends |-> <<>>] IN
  IF req.method = "OPTIONS" THEN none(200)
  ELSE IF req.method = "GET" /\ req.path \in {"/health", "/test"}
    THEN none(200)
  ELSE IF req.method = "POST" /\ req.path = "/webhook"
    THEN IF ~SignatureGate(e.CHANNEL_SECRET, req.headers, req.body)
         THEN none(400)
         ELSE IF req.body.json # "object" THEN none(500)
              ELSE AloneFrom(e, req.body.events, aiOutcomes, 1)
  ELSE none(404)

\* The outcome of the AI call made for event i, "none" when none was made.
AiOutcomeAt(tr, i) ==
  LET ks == { k \in DOMAIN tr : tr[k].op = "aiout" /\ tr[k].ev = i }
  IN IF ks = {} THEN "none" ELSE tr[CHOOSE k \in ks : TRUE].out

IsSend(entry) == entry.op = "send"

\* The (replyToken, text) pairs handed to the outbound client, in order.
Sends(tr) ==
  LET s == SelectSeq(tr, IsSend)
  IN [k \in 1..Len(s) |-> [token |-> s[k].token, text |-> s[k].text]]

\* C22: with two requests in flight and their AI and outbound calls
\* interleaved in any way, the status of each answered request and the
\* sequence of (replyToken, text) pairs it handed to the outbound client
\* are those of the same request handled alone with the same outcomes of
\* its own AI calls.
C22_SameAsAlone ==
  \A r \in ReqIds :
    Answered(r) =>
      LET outs == [i \in 1..Len(Events(r)) |-> AiOutcomeAt(trace[r], i)]
          alone == Alone(env, request[r], outs)
      IN /\ response[r].statusCode = alone.status
         /\ Sends(trace[r]) = alone.sends

\* Slot 1 is answered after a reply of its own while slot 2 is suspended in
\* its AI call.
C22_Witness ==
  /\ Answered(1)
  /\ pc[2] = "ai"
  /\ request[1].body = Envelope(<<TextMessage(TextHivEn, 1), FollowEvent(2)>>)
  /\ request[2].body = Envelope(<<TextMessage(TextSawasdee, 3)>>)
  /\ Len(Sends(trace[1])) = 2

\* The text Message events of the requests in flight whose topic is HIV,
\* PrEP or STD, as pairs of slot and position.
TopicMessages ==
  { p \in ReqIds \X (1..MaxEvents) :
      /\ pc[p[1]] # "idle"
      /\ IsWebhook(p[1])
      /\ p[2] \in EventIds(p[1])
      /\ IsTextMessage(Events(p[1])[p[2]])
      /\ WellShaped(Events(p[1])[p[2]])
      /\ TopicOf(p[1], p[2]) \in {"hiv", "prep", "std"} }

\* The texts composed for the event at position p[2] of slot p[1].
ReplyTexts(p) ==
  { trace[p[1]][k].text :
      k \in At(p[1], "format", p[2]) \cup At(p[1], "send", p[2]) }

\* C23: the reply text of a Message event whose topic is HIV, PrEP or STD
\* is a function of the message text alone: two such events with the same
\* text get the same reply text, whatever their sender, replyToken,
\* position in the envelope, preceding events and request.
C23_ReplyFunctionOfText ==
  \A p \in TopicMessages, q \in TopicMessages :
    Events(p[1])[p[2]].text = Events(q[1])[q[2]].text =>
      \A t \in ReplyTexts(p), u \in ReplyTexts(q) : t = u

\* "HIV?" as the first event of one request, from a known sender, and as
\* the second event of another, after a General message and without a
\* sender: both have been composed.
C23_Witness ==
  /\ request[1].body = Envelope(<<TextMessage(TextHivEn, 1), FollowEvent(2)>>)
  /\ request[2].body
       = Envelope(<<TextMessage(TextHello, 3),
                    AnonymousTextMessage(TextHivEn, 4)>>)
  /\ ReplyTexts(<<1, 1>>) # {}
  /\ ReplyTexts(<<2, 2>>) # {}

\* The signature of the request is accepted: it is the MAC of the body
\* under the configured secret, in the header x-line-signature.
ValidSignature(r) ==
  /\ "x-line-signature" \in DOMAIN request[r].headers
  /\ request[r].headers["x-line-signature"]
       = Mac(env.CHANNEL_SECRET, request[r].body)

\* C24: the signature gate comes before the parsing of the body.  With a
\* secret configured, a POST /webhook request with a missing, empty or
\* wrong signature is answered 400 also when its body does not parse as an
\* envelope, and a 500 is given only to requests that passed the gate:
\* those with a valid signature and those of a chatbot without secret.
C24_GateBeforeParsing ==
  \A r \in ReqIds :
    (Answered(r) /\ IsWebhook(r)) =>
      /\ (env.CHANNEL_SECRET # "" /\ BadSignature(r))
           => response[r].statusCode = 400
      /\ response[r].statusCode = 500
           => (env.CHANNEL_SECRET = "" \/ ValidSignature(r))

\* A wrong signature on a body that is not JSON: 400, not 500.
C24_Witness ==
  \E r \in ReqIds :
    /\ Answered(r)
    /\ IsWebhook(r)
    /\ env.CHANNEL_SECRET # ""
    /\ request[r].body = MalformedBody
    /\ request[r].headers
         = WithHeader("x-line-signature", Mac("guess", MalformedBody))
    /\ response[r].statusCode = 400

Statuses == {200, 400, 404, 500}

\* C25: handle_request always ends with a response, for every request,
\* every shape of the events and every outcome of the external calls: a
\* request that has been received is answered in the end, and the status of
\* the answer is one of 200, 400, 404, 500.
C25_AlwaysAnswered ==
  \A r \in LiveSlots :
    /\ [](Answered(r) => response[r].statusCode \in Statuses)
    /\ (pc[r] = "handle") ~> Answered(r)

\* Answered with 200 after the AI call and the outbound call both raised.
C25_Witness ==
  \E r \in ReqIds :
    /\ Answered(r)
    /\ response[r].statusCode = 200
    /\ \E k \in DOMAIN trace[r] :
         trace[r][k].op = "aiout" /\ trace[r][k].out = "raises"
    /\ \E k \in DOMAIN trace[r] :
         trace[r][k].op = "sent" /\ trace[r][k].out = "raises"

\* An event that is neither a text message nor a follow: a message of
\* another type, or an event of another type or of none.
Skipped(event) ==
  /\ event.isObject
  /\ \/ event.type = "message" /\ event.message = "object"
                               /\ event.mtype # "text"
     \/ event.type \notin {"message", "follow"}

KeepPair(p) == ~Skipped(p[1])

\* C26: an event that is neither a text message nor a follow leaves no
\* trace but the visit of the loop: no classification, no AI call, no
\* reply.  The request is answered as the request without these events
\* is, replies and status alike, and 200 with no outbound call when the
\* envelope has no other event or no event at all.
C26_SkippedEventsChangeNothing ==
  \A r \in ReqIds :
    Dispatching(r) =>
      LET events == Events(r)
          pairs == [i \in 1..Len(events) |->
                      <<events[i], AiOutcomeAt(trace[r], i)>>]
          kept == SelectSeq(pairs, KeepPair)
          keptEvents == [k \in 1..Len(kept) |-> kept[k][1]]
          keptOutcomes == [k \in 1..Len(kept) |-> kept[k][2]]
          without == AloneFrom(env, keptEvents, keptOutcomes, 1)
      IN /\ \A i \in EventIds(r) :
              Skipped(events[i]) =>
                \A op \in {"enter", "classify", "ai", "aiout", "format",
                           "fallback", "send", "sent"} :
                  Count(r, op, i) = 0
         /\ Answered(r) =>
              /\ response[r].statusCode = without.status
              /\ Sends(trace[r]) = without.sends
              /\ kept = <<>> =>
                   /\ response[r].statusCode = 200
                   /\ Sends(trace[r]) = <<>>

\* An image message before a question about HIV: the question is answered
\* and the response is 200.
C26_Witness ==
  \E r \in ReqIds :
    /\ Answered(r)
    /\ Events(r) = <<ImageMessage(1), TextMessage(TextHivEn, 2)>>
    /\ Count(r, "visit", 1) = 1
    /\ Count(r, "send", 2) = 1
    /\ response[r].statusCode = 200

\* C27: without an access token the outbound client is never called, for
\* no Message event, no Follow event and no fallback; the text Message
\* events are classified all the same and a General one gets its AI call;
\* the status of the response is the one the request gets with a token,
\* 200 for an envelope of well-shaped events.
C27_NoTokenNoOutbound ==
  \A r \in ReqIds :
    (env.CHANNEL_ACCESS_TOKEN = "" /\ Dispatching(r)) =>
      LET events == Events(r)
          outs == [i \in 1..Len(events) |-> AiOutcomeAt(trace[r], i)]
          withToken == [env EXCEPT !.CHANNEL_ACCESS_TOKEN = "token"]
      IN /\ \A k \in DOMAIN trace[r] : trace[r][k].op \notin {"send", "sent"}
         /\ \A i \in EventIds(r) :
              ( /\ IsTextMessage(events[i])
                /\ WellShaped(events[i])
                /\ Count(r, "enter", i) = 1 )
              => /\ Count(r, "classify", i) = 1
                 /\ TopicOf(r, i) = "general" => Count(r, "ai", i) = 1
         /\ Answered(r) =>
              /\ response[r].statusCode
                   = AloneFrom(withToken, events, outs, 1).status
              /\ (\A i \in EventIds(r) : WellShaped(events[i]))
                   => response[r].statusCode = 200

\* A General message and a follow without a token: one AI call, no
\* outbound call, 200.
C27_Witness ==
  \E r \in ReqIds :
    /\ env.CHANNEL_ACCESS_TOKEN = ""
    /\ Answered(r)
    /\ Dispatching(r)
    /\ Events(r) = <<TextMessage(TextHello, 1), FollowEvent(2)>>
    /\ Count(r, "aiout", 1) = 1
    /\ Count(r, "enter", 2) = 1
    /\ Sends(trace[r]) = <<>>
    /\ response[r].statusCode = 200

\* C28: when a step of the processing of a Message event raises, the
\* except clause is entered before any outbound call for the event, and the
\* event gets exactly one reply: the fixed fallback text in the language of
\* the message, as it is, without resource list or disclaimer.
C28_ExceptSendsOneFallback ==
  \A r \in ReqIds :
    Dispatching(r) =>
      \A i \in EventIds(r) :
        Count(r, "fallback", i) > 0 =>
          /\ \A k \in At(r, "fallback", i), l \in At(r, "send", i) : k < l
          /\ Count(r, "send", i) <= 1
          /\ \A l \in At(r, "send", i) :
               trace[r][l].text
                 \in {_get_fallback_response(lang) : lang \in Languages}
          /\ Answered(r) =>
               /\ Count(r, "send", i) = 1
               /\ \A l \in At(r, "send", i) :
                    trace[r][l].text = _get_fallback_response(LangOf(r, i))

====
